---- MODULE Spec2Model ----
(***************************************************************************)
(* A model of the Bootstrap compiler front end (Bootstrap Compiler.cpp):   *)
(* the line splitter, the entity line parser, the three parsing passes,    *)
(* Compiler::compile with its debug serializer, and main.                  *)
(*                                                                         *)
(* A std::string is a sequence of one-character strings.  Three            *)
(* specifications share the variables:                                     *)
(*   Spec       main and Compiler::compile, step by step;                  *)
(*   SpecLine   parse_entity_line applied to one bounded line;             *)
(*   SpecPasses the three parsing passes applied, in any order, to one     *)
(*              bounded line sequence.                                     *)
(***************************************************************************)
EXTENDS Integers, Sequences, FiniteSets, TLC

VARIABLES
    pc,          \* position of the process in main / Compiler::compile
    argc,        \* number of command line arguments (argv[0] included)
    argv1,       \* argv[1], "" when absent
    argv2,       \* argv[2], the path; NullArg when absent
    fileOpened,  \* result of opening the input file
    start_time,  \* start_time of compile
    filelines,   \* the line sequence the passes read
    bast,        \* BAST26
    debugFile,   \* state of the output stream: "closed", "good" or "bad"
    artifact,    \* content of main.btspdebug in the file system, or NoFile
    artifact0,   \* content of main.btspdebug when the process started
    stdout,      \* lines printed on standard output
    ret,         \* value returned by Compiler::compile, NoRet before it returns
    exit_code,   \* exit code of the process, NoRet while it runs
    line,        \* SpecLine: the argument of parse_entity_line
    ent,         \* SpecLine: the Entity it returned
    lpc,         \* SpecLine: "call" before the call, "done" after
    done         \* SpecPasses: the passes that have run

vars == <<pc, argc, argv1, argv2, fileOpened, start_time, filelines, bast,
          debugFile, artifact, artifact0, stdout, ret, exit_code,
          line, ent, lpc, done>>

----------------------------------------------------------------------------
(* Bounds *)

MaxLen == 4
MaxLines == 5
MaxFileLines == 3

----------------------------------------------------------------------------
(* Strings *)

\* no value returned yet (the program returns 0 or 1 only)
NoRet == -1

\* a file of the file system: absent, or present with its content
NoFile == [exists |-> FALSE, data |-> <<>>]
File(d) == [exists |-> TRUE, data |-> d]

NL == "\n"
WhiteSpace == {" ", "\t", "\n", "\r"}

StartMarker == <<"#", "s", "t", "a", "r", "t">>
EndMarker == <<"#", "e", "n", "d">>
ImportPrefix == <<"#", "i", "m", "p", "o", "r", "t", " ">>
CmdMarker == <<"?", "?">>

Min(S) == CHOOSE m \in S : \A k \in S : m <= k
Max(S) == CHOOSE m \in S : \A k \in S : k <= m

\* s.substr(pos) with pos 0-based, pos <= size
SubstrFrom(s, pos) == SubSeq(s, pos + 1, Len(s))

\* s.starts_with(p)
StartsWith(s, p) == Len(s) >= Len(p) /\ SubSeq(s, 1, Len(p)) = p

\* s.ends_with(p)
EndsWith(s, p) == Len(s) >= Len(p) /\ SubSeq(s, Len(s) - Len(p) + 1, Len(s)) = p

\* s.find(p): the 0-based position of the first occurrence, -1 for npos
Find(s, p) ==
    LET occ == {i \in 0..(Len(s) - Len(p)) : SubSeq(s, i + 1, i + Len(p)) = p}
    IN  IF occ = {} THEN -1 ELSE Min(occ)

\* The tokens std::getline(stream, token, delim) yields until it fails: a
\* stream at end of input yields nothing more, so a final delimiter is not
\* followed by an empty token.
RECURSIVE GetlineAll(_, _)
GetlineAll(s, delim) ==
    IF s = <<>> THEN <<>>
    ELSE LET d == Find(s, <<delim>>)
         IN  IF d = -1 THEN <<s>>
             ELSE <<SubSeq(s, 1, d)>> \o GetlineAll(SubstrFrom(s, d + 1), delim)

split_lines(text) == GetlineAll(text, NL)

\* token.find_first_not_of(" \t\n\r"), -1 for npos
FindFirstNotOf(t) ==
    LET ok == {i \in 0..(Len(t) - 1) : t[i + 1] \notin WhiteSpace}
    IN  IF ok = {} THEN -1 ELSE Min(ok)

\* token.find_last_not_of(" \t\n\r"), -1 for npos
FindLastNotOf(t) ==
    LET ok == {i \in 0..(Len(t) - 1) : t[i + 1] \notin WhiteSpace}
    IN  IF ok = {} THEN -1 ELSE Max(ok)

\* token.erase(0, n); n = npos erases to the end
EraseFront(t, n) == IF n = -1 THEN <<>> ELSE SubstrFrom(t, n)

\* token.erase(pos): npos + 1 wraps to 0
EraseFrom(t, pos) == SubSeq(t, 1, pos)

\* faulty variant of TrimToken: the second erase is missing
TrimOnlyFront(t) == EraseFront(t, FindFirstNotOf(t))

\* the two erase calls on token
TrimToken(t) ==
    LET t1 == EraseFront(t, FindFirstNotOf(t))
    IN  EraseFrom(t1, FindLastNotOf(t1) + 1)

\* the while loop over the tokens: trim, push_back the non-empty ones
RECURSIVE PushArgs(_, _)
PushArgs(tokens, args) ==
    IF tokens = <<>> THEN args
    ELSE LET token == TrimToken(Head(tokens))
         IN  PushArgs(Tail(tokens),
                      IF token /= <<>> THEN Append(args, token) ELSE args)

\* the removal of the parentheses around rest
StripParens(rest) ==
    IF rest /= <<>> /\ Head(rest) = "(" /\ rest[Len(rest)] = ")"
    THEN SubSeq(rest, 2, Len(rest) - 1)
    ELSE rest

\* parse_entity_line: command and args of one line
parse_entity_line(l) ==
    LET cmd_pos == Find(l, CmdMarker)
    IN  IF cmd_pos /= -1
        THEN [command |-> SubSeq(l, 1, cmd_pos),
              args |-> PushArgs(GetlineAll(StripParens(SubstrFrom(l, cmd_pos + 2)), ","), <<>>)]
        ELSE [command |-> l, args |-> <<>>]

----------------------------------------------------------------------------
(* Bounded inputs *)

RECURSIVE SeqsUpTo(_, _)
SeqsUpTo(S, n) ==
    IF n = 0 THEN {<<>>}
    ELSE LET shorter == SeqsUpTo(S, n - 1)
         IN  shorter \cup {Append(s, c) : s \in shorter, c \in S}

PayloadChars == {"a", "(", ")", ",", " ", "\t", "\n", "\r"}
LinePrefixes == {<<>>, <<"f", "?", "?">>, <<"f", "?", "?", "?">>}
LineInputs == {p \o s : p \in LinePrefixes, s \in SeqsUpTo(PayloadChars, MaxLen)}

----------------------------------------------------------------------------
(* The parsing passes *)

EmptyBAST == [Imports |-> <<>>, Entities |-> <<>>, References |-> <<>>,
              Details |-> <<>>, Raw |-> <<>>]

Digit == <<"0", "1", "2", "3", "4", "5", "6", "7", "8", "9">>

RECURSIVE FormatNat(_)
FormatNat(n) ==
    IF n < 10 THEN <<Digit[n + 1]>>
    ELSE FormatNat(n \div 10) \o <<Digit[(n % 10) + 1]>>

\* std::format("{}", n) of an integer
FormatInt(n) == IF n < 0 THEN <<"-">> \o FormatNat(-n) ELSE FormatNat(n)

\* the for loop of parse_entities_structured
RECURSIVE EntitiesLoop(_, _, _)
EntitiesLoop(ls, inside_program, entities) ==
    IF ls = <<>> THEN entities
    ELSE IF Head(ls) = StartMarker THEN EntitiesLoop(Tail(ls), TRUE, entities)
    ELSE IF Head(ls) = EndMarker THEN EntitiesLoop(Tail(ls), FALSE, entities)
    ELSE IF inside_program /\ Head(ls) /= <<>>
         THEN EntitiesLoop(Tail(ls), inside_program,
                           Append(entities, parse_entity_line(Head(ls))))
         ELSE EntitiesLoop(Tail(ls), inside_program, entities)

\* faulty variant: inside_program starts true
parse_entities_structured_inside(ls) == EntitiesLoop(ls, TRUE, <<>>)

parse_entities_structured(ls) == EntitiesLoop(ls, FALSE, <<>>)

Contains(seq, x) == \E i \in 1..Len(seq) : seq[i] = x

\* faulty variant of PushImport: no std::find test
PushImportAlways(imports, lib) == Append(imports, lib)

\* the std::find test and the push_back of parse_imports
PushImport(imports, lib) ==
    IF ~Contains(imports, lib) THEN Append(imports, lib) ELSE imports

\* the for loop of parse_imports
RECURSIVE ImportsLoop(_, _)
ImportsLoop(ls, imports) ==
    IF ls = <<>> THEN imports
    ELSE IF StartsWith(Head(ls), ImportPrefix)
         THEN ImportsLoop(Tail(ls), PushImport(imports, SubstrFrom(Head(ls), 8)))
         ELSE ImportsLoop(Tail(ls), imports)

\* faulty variant of parse_imports: it pushes into bast.References
parse_imports_into_references(ls, b) ==
    [b EXCEPT !.References = ImportsLoop(ls, b.References)]

parse_imports(ls, b) == [b EXCEPT !.Imports = ImportsLoop(ls, b.Imports)]

\* the for loop of parse_references: i is the 0-based index, the result is
\* <<start_line, end_line>>
RECURSIVE MarkerLoop(_, _, _, _)
MarkerLoop(ls, i, start_line, end_line) ==
    IF i >= Len(ls) THEN <<start_line, end_line>>
    ELSE MarkerLoop(ls, i + 1,
                    IF ls[i + 1] = StartMarker THEN i + 1 ELSE start_line,
                    IF ls[i + 1] = EndMarker THEN i + 1 ELSE end_line)

\* faulty variant of MarkerLoop: the first occurrence wins
RECURSIVE MarkerLoopFirst(_, _, _, _)
MarkerLoopFirst(ls, i, start_line, end_line) ==
    IF i >= Len(ls) THEN <<start_line, end_line>>
    ELSE MarkerLoopFirst(ls, i + 1,
                    IF ls[i + 1] = StartMarker /\ start_line = -1
                    THEN i + 1 ELSE start_line,
                    IF ls[i + 1] = EndMarker /\ end_line = -1
                    THEN i + 1 ELSE end_line)

KeyStart == <<"s", "t", "a", "r", "t", ":">>
KeyEnd == <<"e", "n", "d", ":">>
KeyEndcode == <<"e", "n", "d", "c", "o", "d", "e", ":">>
RefVer == <<"b", "o", "o", "t", "s", "t", "r", "a", "p", "v", "e", "r", ":",
            "b", "2", "6", ";">>
RefRqcomp == <<"b", "o", "o", "t", "s", "t", "r", "a", "p", "r", "q", "c", "o",
               "m", "p", ":", "b", "2", "6", "c", ";">>
RefAst == <<"b", "o", "o", "t", "s", "t", "r", "a", "p", "a", "s", "t", ":",
            "b", "2", "6", "b", "a", "s", "t", ";">>

\* faulty variant of RefStrings: a marker that was not found gets no entry
RefStringsOmitAbsent(start_line, end_line) ==
    (IF start_line = -1 THEN <<>> ELSE <<KeyStart \o FormatInt(start_line) \o <<";">>>>)
    \o (IF end_line = -1 THEN <<>>
        ELSE <<KeyEnd \o FormatInt(end_line) \o <<";">>,
               KeyEndcode \o FormatInt(end_line) \o <<";">>>>)
    \o <<RefVer, RefRqcomp, RefAst>>

\* the six strings parse_references pushes
RefStrings(start_line, end_line) ==
    <<KeyStart \o FormatInt(start_line) \o <<";">>,
      KeyEnd \o FormatInt(end_line) \o <<";">>,
      KeyEndcode \o FormatInt(end_line) \o <<";">>,
      RefVer, RefRqcomp, RefAst>>

\* faulty variant of parse_references, with MarkerLoopFirst
parse_references_first(ls, b) ==
    LET m == MarkerLoopFirst(ls, 0, -1, -1)
    IN  [b EXCEPT !.References = b.References \o RefStrings(m[1], m[2])]

parse_references(ls, b) ==
    LET m == MarkerLoop(ls, 0, -1, -1)
    IN  [b EXCEPT !.References = b.References \o RefStrings(m[1], m[2])]

\* BAST26.Entities = parse_entities_structured(filelines)
SetEntities(ls, b) == [b EXCEPT !.Entities = parse_entities_structured(ls)]

----------------------------------------------------------------------------
(* The debug serializer *)

HdrDetails == <<";", ";", "d", "e", "t", "a", "i", "l", "s">>
HdrRaw == <<";", ";", "r", "a", "w">>
HdrImports == <<";", ";", "i", "m", "p", "o", "r", "t", "s">>
HdrEntities == <<";", ";", "e", "n", "t", "i", "t", "i", "e", "s">>
HdrReferences == <<";", ";", "r", "e", "f", "e", "r", "e", "n", "c", "e", "s">>
KeyProject == <<"p", "r", "o", "j", "e", "c", "t", "n", "a", "m", "e", "=">>
KeyCompileStart == <<"c", "o", "m", "p", "i", "l", "e", "-", "s", "t", "a", "r", "t", ":">>
KeyNumEntities == <<"n", "u", "m", "-", "e", "n", "t", "i", "t", "i", "e", "s", ":">>
ArgsOpen == <<" ", "?", "?", " ", "(">>
ArgsSep == <<",", " ">>

\* BAST26.Details
MakeDetails(fileloc, t, b) ==
    <<KeyProject \o fileloc,
      KeyCompileStart \o FormatInt(t),
      KeyNumEntities \o FormatNat(Len(b.Entities))>>

\* for (line : v) debugFile << line << '\n'
RECURSIVE WriteLines(_)
WriteLines(ls) ==
    IF ls = <<>> THEN <<>> ELSE Head(ls) \o <<NL>> \o WriteLines(Tail(ls))

\* the inner loop over ent.args
RECURSIVE WriteArgs(_, _)
WriteArgs(args, i) ==
    IF i >= Len(args) THEN <<>>
    ELSE args[i + 1] \o (IF i + 1 < Len(args) THEN ArgsSep ELSE <<>>)
         \o WriteArgs(args, i + 1)

\* the body of the loop over BAST26.Entities
WriteEntity(e) ==
    e.command
    \o (IF e.args /= <<>> THEN ArgsOpen \o WriteArgs(e.args, 0) \o <<")">> ELSE <<>>)
    \o <<";", NL>>

RECURSIVE WriteEntityList(_)
WriteEntityList(es) ==
    IF es = <<>> THEN <<>> ELSE WriteEntity(Head(es)) \o WriteEntityList(Tail(es))

----------------------------------------------------------------------------
(* main and Compiler::compile *)

NullArg == "null"
BtspSuffix == <<".", "b", "t", "s", "p">>
Paths == {<<"x", ".", "b", "t", "s", "p">>, <<"x", ".", "b", "t", "s">>}
Commands == {"build", "run"}

\* exit codes of a process killed by SIGABRT or SIGSEGV
CrashCodes == {134, 139}

\* values of the system clock, in seconds since the epoch (within int)
Times == {7, 1700000000}

OldArtifact == File(<<"o", "l", "d", NL>>)

FileLineSet == {StartMarker, EndMarker, <<>>, ImportPrefix \o <<"a">>,
                <<"f", "?", "?", "a", ",", "b">>}

RECURSIVE JoinLines(_)
JoinLines(ls) ==
    IF ls = <<>> THEN <<>>
    ELSE IF Len(ls) = 1 THEN Head(ls)
    ELSE Head(ls) \o <<NL>> \o JoinLines(Tail(ls))

\* the contents the input file may have
Texts == {JoinLines(ls) \o t : ls \in SeqsUpTo(FileLineSet, MaxFileLines),
                               t \in {<<>>, <<NL>>}}

\* operator<< of a bool
BoolOut(b) == IF b THEN 1 ELSE 0

TryPcs == {"read", "parse_imports", "parse_references", "parse_entities",
           "details", "open_output", "write_details", "write_raw",
           "write_imports", "write_entities", "write_references"}

procUnchanged == UNCHANGED <<line, ent, lpc, done, argc, argv1, argv2, artifact0>>

Init ==
    /\ pc = "main"
    /\ argc \in 1..4
    /\ argv1 \in (IF argc >= 2 THEN Commands ELSE {NullArg})
    /\ argv2 \in (IF argc >= 3 THEN Paths ELSE {NullArg})
    /\ fileOpened = FALSE
    /\ start_time = 0
    /\ filelines = <<>>
    /\ bast = EmptyBAST
    /\ debugFile = "closed"
    /\ artifact0 \in {NoFile, OldArtifact}
    /\ artifact = artifact0
    /\ stdout = <<>>
    /\ ret = NoRet
    /\ exit_code = NoRet
    /\ line = <<>>
    /\ ent = [command |-> <<>>, args |-> <<>>]
    /\ lpc = "idle"
    /\ done = {}

\* argc < 2
MainTooFewArgs ==
    /\ pc = "main" /\ argc < 2
    /\ stdout' = Append(stdout, <<"b26c expected 2 or more arguments, instead got ",
                                  argc, ".">>)
    /\ exit_code' = 1
    /\ pc' = "exit"
    /\ UNCHANGED <<fileOpened, start_time, filelines, bast, debugFile, artifact, ret>>
    /\ procUnchanged

\* argv[1] is not "build"
MainNotBuild ==
    /\ pc = "main" /\ argc >= 2 /\ argv1 /= "build"
    /\ exit_code' = 0
    /\ pc' = "exit"
    /\ UNCHANGED <<fileOpened, start_time, filelines, bast, debugFile, artifact,
                   stdout, ret>>
    /\ procUnchanged

\* "build" with argc = 2: argv[2] is the null pointer, and a path is built
\* from it; the process is killed
MainNullPath ==
    /\ pc = "main" /\ argc = 2 /\ argv1 = "build"
    /\ exit_code' \in CrashCodes
    /\ pc' = "exit"
    /\ UNCHANGED <<fileOpened, start_time, filelines, bast, debugFile, artifact,
                   stdout, ret>>
    /\ procUnchanged

\* "build" with a path: the three checks, then the diagnostic or the call
MainBuild ==
    /\ pc = "main" /\ argc >= 3 /\ argv1 = "build"
    /\ \E exists \in BOOLEAN :
         LET build_properties_valid == (argc = 3)
             build_path_valid == exists
             build_path_suffix_valid == EndsWith(argv2, BtspSuffix)
         IN  IF ~build_properties_valid \/ ~build_path_valid
                \/ ~build_path_suffix_valid
             THEN /\ stdout' = stdout \o
                       <<<<"b26c=1:">>,
                         <<"build-properties-valid: ", BoolOut(build_properties_valid)>>,
                         <<"build-path-valid: ", BoolOut(build_path_valid),
                           " (", <<"absolute", argv2>>, ")">>,
                         <<"build-path-suffix-valid: ",
                           BoolOut(build_path_suffix_valid)>>>>
                  /\ exit_code' = 1
                  /\ pc' = "exit"
             ELSE /\ pc' = "compile"
                  /\ UNCHANGED <<stdout, exit_code>>
    /\ UNCHANGED <<fileOpened, start_time, filelines, bast, debugFile, artifact, ret>>
    /\ procUnchanged

\* the value of Compiler::compile is dropped; main returns 0
MainReturn ==
    /\ pc = "returned"
    /\ exit_code' = 0
    /\ pc' = "exit"
    /\ UNCHANGED <<fileOpened, start_time, filelines, bast, debugFile, artifact,
                   stdout, ret>>
    /\ procUnchanged

\* faulty variant of CompileOpen: the test of the stream is missing
CompileOpenIgnoreFailure ==
    /\ pc = "compile"
    /\ \E ok \in BOOLEAN :
         /\ fileOpened' = ok
         /\ pc' = "read"
         /\ UNCHANGED <<stdout, ret>>
    /\ UNCHANGED <<start_time, filelines, bast, debugFile, artifact, exit_code>>
    /\ procUnchanged

\* std::ifstream file(fileloc) and the test of it
CompileOpen ==
    /\ pc = "compile"
    /\ \E ok \in BOOLEAN :
         /\ fileOpened' = ok
         /\ IF ~ok
            THEN /\ stdout' = stdout \o <<<<"b26c=1">>, <<"file-opened: 0">>>>
                 /\ ret' = 1
                 /\ pc' = "returned"
            ELSE /\ pc' = "read"
                 /\ UNCHANGED <<stdout, ret>>
    /\ UNCHANGED <<start_time, filelines, bast, debugFile, artifact, exit_code>>
    /\ procUnchanged

\* get_time, the read of the whole file, split_lines, BAST26.Raw
ReadAndSplit ==
    /\ pc = "read"
    /\ \E t \in Times, content \in Texts :
         /\ start_time' = t
         /\ filelines' = split_lines(content)
         /\ bast' = [EmptyBAST EXCEPT !.Raw = split_lines(content)]
    /\ pc' = "parse_imports"
    /\ UNCHANGED <<fileOpened, debugFile, artifact, stdout, ret, exit_code>>
    /\ procUnchanged

ParseImports ==
    /\ pc = "parse_imports"
    /\ bast' = parse_imports(filelines, bast)
    /\ pc' = "parse_references"
    /\ UNCHANGED <<fileOpened, start_time, filelines, debugFile, artifact, stdout,
                   ret, exit_code>>
    /\ procUnchanged

ParseReferences ==
    /\ pc = "parse_references"
    /\ bast' = parse_references(filelines, bast)
    /\ pc' = "parse_entities"
    /\ UNCHANGED <<fileOpened, start_time, filelines, debugFile, artifact, stdout,
                   ret, exit_code>>
    /\ procUnchanged

ParseEntities ==
    /\ pc = "parse_entities"
    /\ bast' = SetEntities(filelines, bast)
    /\ pc' = "details"
    /\ UNCHANGED <<fileOpened, start_time, filelines, debugFile, artifact, stdout,
                   ret, exit_code>>
    /\ procUnchanged

Details ==
    /\ pc = "details"
    /\ bast' = [bast EXCEPT !.Details = MakeDetails(argv2, start_time, bast)]
    /\ pc' = "open_output"
    /\ UNCHANGED <<fileOpened, start_time, filelines, debugFile, artifact, stdout,
                   ret, exit_code>>
    /\ procUnchanged

\* std::ofstream debugFile(o + ".btspdebug"): the file is created or
\* truncated, or the stream is left in a failed state
OpenOutput ==
    /\ pc = "open_output"
    /\ \E ok \in BOOLEAN :
         IF ok THEN debugFile' = "good" /\ artifact' = File(<<>>)
         ELSE debugFile' = "bad" /\ UNCHANGED artifact
    /\ pc' = "write_details"
    /\ UNCHANGED <<fileOpened, start_time, filelines, bast, stdout, ret, exit_code>>
    /\ procUnchanged

\* debugFile << data: a stream that is not good writes nothing, and a write
\* that fails leaves the stream bad; neither raises an exception
Put(data) ==
    \E ok \in BOOLEAN :
       IF debugFile = "good" /\ ok
       THEN artifact' = File(artifact.data \o data) /\ UNCHANGED debugFile
       ELSE debugFile' = "bad" /\ UNCHANGED artifact

WriteDetails ==
    /\ pc = "write_details"
    /\ Put(HdrDetails \o <<NL>> \o WriteLines(bast.Details))
    /\ pc' = "write_raw"
    /\ UNCHANGED <<fileOpened, start_time, filelines, bast, stdout, ret, exit_code>>
    /\ procUnchanged

WriteRaw ==
    /\ pc = "write_raw"
    /\ Put(HdrRaw \o <<NL>> \o WriteLines(bast.Raw))
    /\ pc' = "write_imports"
    /\ UNCHANGED <<fileOpened, start_time, filelines, bast, stdout, ret, exit_code>>
    /\ procUnchanged

WriteImports ==
    /\ pc = "write_imports"
    /\ Put(HdrImports \o <<NL>> \o WriteLines(bast.Imports))
    /\ pc' = "write_entities"
    /\ UNCHANGED <<fileOpened, start_time, filelines, bast, stdout, ret, exit_code>>
    /\ procUnchanged

WriteEntities ==
    /\ pc = "write_entities"
    /\ Put(HdrEntities \o <<NL>> \o WriteEntityList(bast.Entities))
    /\ pc' = "write_references"
    /\ UNCHANGED <<fileOpened, start_time, filelines, bast, stdout, ret, exit_code>>
    /\ procUnchanged

\* the last section, the end of the try block and return 0
WriteReferences ==
    /\ pc = "write_references"
    /\ \E ok \in BOOLEAN :
         artifact' = (IF debugFile = "good" /\ ok
                      THEN File(artifact.data \o HdrReferences \o <<NL>>
                                \o WriteLines(bast.References))
                      ELSE artifact)
    /\ debugFile' = "closed"
    /\ ret' = 0
    /\ pc' = "returned"
    /\ UNCHANGED <<fileOpened, start_time, filelines, bast, stdout, exit_code>>
    /\ procUnchanged

\* a std::exception raised inside the try block (the allocation of a string
\* or a vector failing) and its handler
Exception ==
    /\ pc \in TryPcs
    /\ stdout' = stdout \o <<<<"b26c=1">>, <<"error: ", "std::bad_alloc">>>>
    /\ debugFile' = "closed"
    /\ ret' = 1
    /\ pc' = "returned"
    /\ UNCHANGED <<fileOpened, start_time, filelines, bast, artifact, exit_code>>
    /\ procUnchanged

Next ==
    \/ MainTooFewArgs
    \/ MainNotBuild
    \/ MainNullPath
    \/ MainBuild
    \/ MainReturn
    \/ CompileOpen
    \/ ReadAndSplit
    \/ ParseImports
    \/ ParseReferences
    \/ ParseEntities
    \/ Details
    \/ OpenOutput
    \/ WriteDetails
    \/ WriteRaw
    \/ WriteImports
    \/ WriteEntities
    \/ WriteReferences
    \/ Exception

Spec == Init /\ [][Next]_vars

----------------------------------------------------------------------------
(* parse_entity_line on one line *)

\* the process variables, unused outside Spec
ProcIdle ==
    /\ pc = "idle"
    /\ argc = 1
    /\ argv1 = NullArg
    /\ argv2 = NullArg
    /\ fileOpened = FALSE
    /\ start_time = 0
    /\ debugFile = "closed"
    /\ artifact0 = NoFile
    /\ artifact = NoFile
    /\ stdout = <<>>
    /\ ret = NoRet
    /\ exit_code = NoRet

InitLine ==
    /\ ProcIdle
    /\ filelines = <<>>
    /\ bast = EmptyBAST
    /\ done = {}
    /\ line \in LineInputs
    /\ ent = [command |-> <<>>, args |-> <<>>]
    /\ lpc = "call"

CallParseEntityLine ==
    /\ lpc = "call"
    /\ ent' = parse_entity_line(line)
    /\ lpc' = "done"
    /\ UNCHANGED <<pc, argc, argv1, argv2, fileOpened, start_time, filelines, bast,
                   debugFile, artifact, artifact0, stdout, ret, exit_code, line, done>>

NextLine == CallParseEntityLine

SpecLine == InitLine /\ [][NextLine]_vars

----------------------------------------------------------------------------
(* The three passes over one line sequence, in any order *)

PassLineSet == {StartMarker, EndMarker, <<>>, ImportPrefix \o <<"a">>,
                ImportPrefix \o <<"a", " ">>, <<"f", "?", "?", "a", ",", "b">>}

InitPasses ==
    /\ ProcIdle
    /\ filelines \in SeqsUpTo(PassLineSet, MaxLines)
    /\ bast = [EmptyBAST EXCEPT !.Raw = filelines]
    /\ done = {}
    /\ line = <<>>
    /\ ent = [command |-> <<>>, args |-> <<>>]
    /\ lpc = "idle"

passUnchanged ==
    UNCHANGED <<pc, argc, argv1, argv2, fileOpened, start_time, filelines,
                debugFile, artifact, artifact0, stdout, ret, exit_code,
                line, ent, lpc>>

PassImports ==
    /\ "imports" \notin done
    /\ bast' = parse_imports(filelines, bast)
    /\ done' = done \cup {"imports"}
    /\ passUnchanged

PassReferences ==
    /\ "references" \notin done
    /\ bast' = parse_references(filelines, bast)
    /\ done' = done \cup {"references"}
    /\ passUnchanged

PassEntities ==
    /\ "entities" \notin done
    /\ bast' = SetEntities(filelines, bast)
    /\ done' = done \cup {"entities"}
    /\ passUnchanged

NextPasses == PassImports \/ PassReferences \/ PassEntities

SpecPasses == InitPasses /\ [][NextPasses]_vars

----------------------------------------------------------------------------
(* Properties *)

\* the k-th smallest element of a set of integers
Nth(S, k) == CHOOSE x \in S : Cardinality({y \in S : y < x}) = k - 1

IsMarker(l) == l = StartMarker \/ l = EndMarker

\* the indices of the lines that are non-empty, are no marker, and whose
\* most recent preceding marker is #start
InBlock(ls) ==
    {i \in 1..Len(ls) :
        /\ ls[i] /= <<>>
        /\ ~IsMarker(ls[i])
        /\ LET before == {j \in 1..(i - 1) : IsMarker(ls[j])}
           IN  before /= {} /\ ls[Max(before)] = StartMarker}

\* C1: parse_entities_structured returns, in source order, exactly one Entity
\* per line that is non-empty, is no marker, and whose most recent preceding
\* marker is #start.
C1_EntitiesOfBlocks ==
    "entities" \in done =>
        bast.Entities = [k \in 1..Cardinality(InBlock(filelines)) |->
                            parse_entity_line(filelines[Nth(InBlock(filelines), k)])]

\* two spans contribute, with an #end between them
C1_Witness ==
    /\ "entities" \in done
    /\ Len(bast.Entities) >= 2
    /\ \E i, j, k \in 1..Len(filelines) :
          /\ i < j /\ j < k
          /\ i \in InBlock(filelines) /\ k \in InBlock(filelines)
          /\ filelines[j] = EndMarker

\* the depth of parentheses after the first k characters
ParenDepth(s, k) ==
    Cardinality({i \in 1..k : s[i] = "("}) - Cardinality({i \in 1..k : s[i] = ")"})

\* the first character is a "(" that is closed by the last character
WrappedInOnePair(s) ==
    /\ Len(s) >= 2
    /\ s[1] = "(" /\ s[Len(s)] = ")"
    /\ \A k \in 1..(Len(s) - 1) : ParenDepth(s, k) > 0

\* C2: the parentheses of the payload are stripped exactly when one pair
\* wraps the whole payload; parentheses of single arguments are kept.
C2_StripOnlyWrappingPair ==
    (lpc = "done" /\ Find(line, CmdMarker) /= -1) =>
        LET rest == SubstrFrom(line, Find(line, CmdMarker) + 2)
            payload == IF WrappedInOnePair(rest)
                       THEN SubSeq(rest, 2, Len(rest) - 1) ELSE rest
        IN  ent.args = PushArgs(GetlineAll(payload, ","), <<>>)

\* C3: whenever Compiler::compile has returned 1, the process exits with 1.
C3_FailureExitsOne ==
    (pc = "exit" /\ ret = 1) => exit_code = 1

\* the lines of the artifact that render the BAST
ArtifactLines(b) ==
    <<HdrDetails>> \o b.Details \o <<HdrRaw>> \o b.Raw \o <<HdrImports>> \o b.Imports
    \o <<HdrEntities>>
    \o [i \in 1..Len(b.Entities) |->
          SubSeq(WriteEntity(b.Entities[i]), 1, Len(WriteEntity(b.Entities[i])) - 1)]
    \o <<HdrReferences>> \o b.References

\* C4: compile returns 0 only with the artifact written, its five sections in
\* order; otherwise it returns 1 and has printed a diagnostic.
C4_SuccessImpliesArtifact ==
    (pc \in {"returned", "exit"} /\ ret /= NoRet) =>
        IF ret = 0
        THEN artifact.exists /\ split_lines(artifact.data) = ArtifactLines(bast)
        ELSE ret = 1 /\ Len(stdout) >= 2 /\ stdout[1] = <<"b26c=1">>

\* C5: when the input cannot be opened, compile prints the two lines,
\* returns 1, has computed no BAST field and has left the artifact alone.
C5_OpenFailureBeforeParsing ==
    (pc \in {"returned", "exit"} /\ ret /= NoRet /\ ~fileOpened) =>
        /\ ret = 1
        /\ stdout = <<<<"b26c=1">>, <<"file-opened: 0">>>>
        /\ bast = EmptyBAST
        /\ filelines = <<>>
        /\ debugFile = "closed"
        /\ artifact = artifact0

C5_Witness ==
    pc = "returned" /\ ~fileOpened /\ ret = 1 /\ artifact0 = OldArtifact

\* <<n>> for the integer n a decimal string denotes, <<>> if it denotes none
RECURSIVE DecodeNat(_)
DecodeNat(s) ==
    IF s = <<>> THEN 0
    ELSE 10 * DecodeNat(SubSeq(s, 1, Len(s) - 1))
         + (CHOOSE d \in 0..9 : Digit[d + 1] = s[Len(s)])

AllDigits(s) == s /= <<>> /\ \A i \in 1..Len(s) : \E d \in 1..10 : Digit[d] = s[i]

DecodeInt(s) ==
    IF AllDigits(s) THEN <<DecodeNat(s)>>
    ELSE IF s /= <<>> /\ Head(s) = "-" /\ AllDigits(Tail(s)) THEN <<0 - DecodeNat(Tail(s))>>
    ELSE <<>>

\* the value of a reference string key<value>; as DecodeInt gives it
RefValue(r, key) ==
    IF StartsWith(r, key) /\ r[Len(r)] = ";"
    THEN DecodeInt(SubSeq(r, Len(key) + 1, Len(r) - 1))
    ELSE <<>>

\* the 1-based index of the last line equal to marker, -1 if there is none
LastLineEqual(ls, marker) ==
    LET at == {i \in 1..Len(ls) : ls[i] = marker}
    IN  IF at = {} THEN -1 ELSE Max(at)

\* C6: start is the 1-based index of the last #start line or -1, end that of
\* the last #end line or -1, and endcode equals end.
C6_LastMarkerLines ==
    "references" \in done =>
        /\ Len(bast.References) >= 3
        /\ RefValue(bast.References[1], KeyStart) = <<LastLineEqual(filelines, StartMarker)>>
        /\ RefValue(bast.References[2], KeyEnd) = <<LastLineEqual(filelines, EndMarker)>>
        /\ RefValue(bast.References[3], KeyEndcode) = RefValue(bast.References[2], KeyEnd)

\* two #start lines and no #end line
C6_Witness ==
    /\ "references" \in done
    /\ Cardinality({i \in 1..Len(filelines) : filelines[i] = StartMarker}) >= 2
    /\ LastLineEqual(filelines, EndMarker) = -1

ParsedPcs == {"details", "open_output", "write_details", "write_raw",
              "write_imports", "write_entities", "write_references"}

\* C7: after the parsing steps of compile, References holds exactly the six
\* entries start, end, endcode and the three fixed tags, in this order, with
\* or without marker lines in the input.
C7_SixReferences ==
    (pc \in ParsedPcs \/ (pc \in {"returned", "exit"} /\ ret = 0)) =>
        /\ Len(bast.References) = 6
        /\ Len(RefValue(bast.References[1], KeyStart)) = 1
        /\ Len(RefValue(bast.References[2], KeyEnd)) = 1
        /\ Len(RefValue(bast.References[3], KeyEndcode)) = 1
        /\ bast.References[4] = RefVer
        /\ bast.References[5] = RefRqcomp
        /\ bast.References[6] = RefAst

\* a non-empty input without any marker line
C7_Witness ==
    /\ pc = "details"
    /\ filelines /= <<>>
    /\ \A i \in 1..Len(filelines) : ~IsMarker(filelines[i])

\* the indices of the #import lines
ImportLines(ls) == {i \in 1..Len(ls) : StartsWith(ls[i], ImportPrefix)}

\* the remainder of line i after the prefix
Identifier(ls, i) == SubSeq(ls[i], Len(ImportPrefix) + 1, Len(ls[i]))

FirstImportOf(ls, id) == Min({i \in ImportLines(ls) : Identifier(ls, i) = id})

\* C8: the import list holds each identifier exactly once, nothing else, in
\* the order of the first occurrences.
C8_ImportsFirstOccurrence ==
    "imports" \in done =>
        LET ids == {Identifier(filelines, i) : i \in ImportLines(filelines)}
            imports == bast.Imports
        IN  /\ {imports[k] : k \in 1..Len(imports)} = ids
            /\ Len(imports) = Cardinality(ids)
            /\ \A p, q \in 1..Len(imports) :
                  p < q => FirstImportOf(filelines, imports[p])
                           < FirstImportOf(filelines, imports[q])

\* a duplicate after a second identifier
C8_Witness ==
    /\ "imports" \in done
    /\ Len(bast.Imports) = 2
    /\ Cardinality(ImportLines(filelines)) >= 3

\* the pieces of s between its commas, the empty ones included
CommaPieces(s) ==
    LET cuts == {0} \cup {i \in 1..Len(s) : s[i] = ","} \cup {Len(s) + 1}
    IN  [k \in 1..(Cardinality(cuts) - 1) |->
            SubSeq(s, Nth(cuts, k) + 1, Nth(cuts, k + 1) - 1)]

\* t without its leading and trailing white space
Trimmed(t) ==
    LET keep == {i \in 1..Len(t) : t[i] \notin WhiteSpace}
    IN  IF keep = {} THEN <<>> ELSE SubSeq(t, Min(keep), Max(keep))

\* C9: the args are the comma-separated pieces of the payload, trimmed, in
\* order, without the empty ones; no arg is empty, starts or ends with white
\* space or contains a comma, and a payload of white space yields no args.
C9_ArgsTrimmedPieces ==
    (lpc = "done" /\ Find(line, CmdMarker) /= -1) =>
        LET payload == StripParens(SubstrFrom(line, Find(line, CmdMarker) + 2))
            pieces == CommaPieces(payload)
            NonEmpty(t) == t /= <<>>
        IN  /\ ent.args = SelectSeq([k \in 1..Len(pieces) |-> Trimmed(pieces[k])],
                                    NonEmpty)
            /\ \A k \in 1..Len(ent.args) :
                  /\ ent.args[k] /= <<>>
                  /\ ent.args[k][1] \notin WhiteSpace
                  /\ ent.args[k][Len(ent.args[k])] \notin WhiteSpace
                  /\ \A i \in 1..Len(ent.args[k]) : ent.args[k][i] /= ","
            /\ (\A i \in 1..Len(payload) : payload[i] \in WhiteSpace)
                  => ent.args = <<>>

\* an empty piece is dropped and a piece is trimmed at its end
C9_Witness ==
    /\ lpc = "done" /\ Find(line, CmdMarker) /= -1
    /\ LET pieces == CommaPieces(StripParens(SubstrFrom(line, Find(line, CmdMarker) + 2)))
       IN  /\ Len(pieces) > Len(ent.args)
           /\ \E k \in 1..Len(pieces) :
                 /\ Len(pieces[k]) >= 2
                 /\ pieces[k][Len(pieces[k])] \in WhiteSpace
                 /\ Trimmed(pieces[k]) /= <<>>

\* C10: the BAST depends only on which passes have run, not on their order:
\* each field is what its own pass computes from the lines alone.
C10_PassesOrderIndependent ==
    bast = [Imports |-> IF "imports" \in done
                        THEN parse_imports(filelines, EmptyBAST).Imports ELSE <<>>,
            References |-> IF "references" \in done
                           THEN parse_references(filelines, EmptyBAST).References
                           ELSE <<>>,
            Entities |-> IF "entities" \in done
                         THEN parse_entities_structured(filelines) ELSE <<>>,
            Details |-> <<>>,
            Raw |-> filelines]

\* all three passes have run and each has produced something
C10_Witness ==
    /\ done = {"imports", "references", "entities"}
    /\ bast.Imports /= <<>>
    /\ bast.Entities /= <<>>
    /\ bast.References /= <<>>

====
